---- MODULE Spec2Model ----
(***************************************************************************)
(* Model of generate_opcode_table.py: main() walks rows 1..16 of an HTML   *)
(* table, parses every data cell into an "I::new(Op::<opcode>,<cycles>,    *)
(* <addr_mode>)," piece and prints one array literal line per row.         *)
(*                                                                         *)
(* Text is modelled as a sequence of one-character strings so that the     *)
(* index scanning of the source (data[i], data[a:b]) is kept; the pieces   *)
(* built by the f-strings are TLA+ strings.  Python indices are 0-based,   *)
(* sequences 1-based: data[i] of the source is data[i + 1] here.           *)
(* A printed line is kept as the sequence of pieces that ''.join glues.    *)
(***************************************************************************)
EXTENDS Integers, Sequences, FiniteSets, TLC

VARIABLES pc, nrows, rows, rowNum, k, rowOutput, stdout, exc

vars == <<pc, nrows, rows, rowNum, k, rowOutput, stdout, exc>>

(* ------------------------------ bounds --------------------------------- *)
\* The table dimension: stands for the 16 of range(1,17) and of
\* "[[I; 16]; 16]"; scaled down so that whole runs can be enumerated.
TableDim == 2
\* Longest mnemonic, longest digit suffix and longest free-form cell text
\* of the enumerated cell texts.
MaxMnemonic == 2
MaxDigits == 2
MaxLen == 4

(* --------------------------- character classes ------------------------- *)
UpperChars == {"A", "B"}
LowerChars == {"a", "b", "d", "e", "i", "l", "m", "n", "p", "q", "r", "s", "x", "y", "z"}
DigitChars == {"0", "1", "2", "3", "4", "5", "6", "7", "8", "9"}

isupper(c) == c \in UpperChars
islower(c) == c \in LowerChars
isdigit(c) == c \in DigitChars

\* int(c) of a one-character string c that is a decimal digit
DigitValue(c) ==
  CASE c = "0" -> 0 [] c = "1" -> 1 [] c = "2" -> 2 [] c = "3" -> 3
    [] c = "4" -> 4 [] c = "5" -> 5 [] c = "6" -> 6 [] c = "7" -> 7
    [] c = "8" -> 8 [] c = "9" -> 9

\* the characters of a text glued into one string
RECURSIVE Str(_)
Str(s) == IF s = <<>> THEN "" ELSE Head(s) \o Str(Tail(s))

\* data[a:b]
Slice(data, a, b) == SubSeq(data, a + 1, b)

(* ------------------------------ cell parser ---------------------------- *)
\* while i < len(data) and data[i].isupper(): i += 1
RECURSIVE ScanUpper(_, _)
ScanUpper(data, i) ==
  IF i < Len(data) /\ isupper(data[i + 1]) THEN ScanUpper(data, i + 1) ELSE i

\* while i < len(data) and data[i].islower(): i += 1
RECURSIVE ScanLower(_, _)
ScanLower(data, i) ==
  IF i < Len(data) /\ islower(data[i + 1]) THEN ScanLower(data, i + 1) ELSE i

\* variant: a token that matches no arm falls back to the implied mode
ResolveAddrMode_UnknownToImplied(addr_mode) ==
  CASE addr_mode = "abs" -> "AM::ABS"
    [] addr_mode = "abx" -> "AM::ABX"
    [] addr_mode = "aby" -> "AM::ABY"
    [] addr_mode = "imm" -> "AM::IMM"
    [] addr_mode = "ind" -> "AM::IND"
    [] addr_mode = "izx" -> "AM::INX"
    [] addr_mode = "izy" -> "AM::INY"
    [] addr_mode = "zp" -> "AM::ZPG"
    [] addr_mode = "zpx" -> "AM::ZPX"
    [] addr_mode = "zpy" -> "AM::ZPY"
    [] addr_mode = "rel" -> "AM::REL"
    [] OTHER -> "AM::IMP"

\* the if/elif chain that converts the token to the rust enum; a token that
\* matches no arm is left as it is
ResolveAddrMode(addr_mode) ==
  CASE addr_mode = "abs" -> "AM::ABS"
    [] addr_mode = "abx" -> "AM::ABX"
    [] addr_mode = "aby" -> "AM::ABY"
    [] addr_mode = "imm" -> "AM::IMM"
    [] addr_mode = "ind" -> "AM::IND"
    [] addr_mode = "izx" -> "AM::INX"
    [] addr_mode = "izy" -> "AM::INY"
    [] addr_mode = "zp" -> "AM::ZPG"
    [] addr_mode = "zpx" -> "AM::ZPX"
    [] addr_mode = "zpy" -> "AM::ZPY"
    [] addr_mode = "rel" -> "AM::REL"
    [] addr_mode = "" -> "AM::IMP"
    [] OTHER -> addr_mode

\* outcome of one pass of the cell loop body: a piece is appended, or int()
\* raises ValueError
Appended(opcode, cycles, addr_mode) ==
  [kind |-> "append", opcode |-> opcode, cycles |-> cycles, addr_mode |-> addr_mode]
Raised(e) ==
  [kind |-> e, opcode |-> "", cycles |-> 0, addr_mode |-> ""]

\* int(data[i]): the single character at i
IntAt(data, i) == IF isdigit(data[i + 1]) THEN DigitValue(data[i + 1]) ELSE -1

\* cycles = int(data[i]) in the digit-first branch
DigitBranchCycles(data, i) == IntAt(data, i)

\* variant: the count defaults to 1 when nothing follows the token
ModeBranchCycles_DefaultOne(data, i) == IF i < Len(data) THEN IntAt(data, i) ELSE 1

\* cycles = int(data[i]) if i < len(data) else 0
ModeBranchCycles(data, i) == IF i < Len(data) THEN IntAt(data, i) ELSE 0

\* the mnemonic-only branch: nothing follows the uppercase run
NoModeNoCycles(opcode) == Appended(opcode, 0, "AM::IMP")

\* the body of the cell loop, from the joined text to the append
ParseCell(data) ==
  LET i == ScanUpper(data, 0)
      opcode == Str(Slice(data, 0, i))
  IN IF i >= Len(data) THEN NoModeNoCycles(opcode)
     ELSE IF isdigit(data[i + 1])
     THEN Appended(opcode, DigitBranchCycles(data, i), "AM::IMP")
     ELSE LET j == ScanLower(data, i)
              addr_mode == ResolveAddrMode(Str(Slice(data, i, j)))
              cycles == ModeBranchCycles(data, j)
          IN IF cycles < 0 THEN Raised("ValueError")
             ELSE Appended(opcode, cycles, addr_mode)

\* f"I::new(Op::{opcode},{cycles},{addr_mode}),"
Fmt(opcode, cycles, addr_mode) ==
  "I::new(Op::" \o opcode \o "," \o ToString(cycles) \o "," \o addr_mode \o "),"

(* ------------------------------ the source ----------------------------- *)
\* the header row (rows[0]) and the index cell of a row (cell 0): never parsed
HeaderRow == <<>>
IndexCell == <<"0", "x">>

\* variant: the index cell is not skipped
DataCells_NoSkip(row) == row

\* row.find_all('td')[1:]
DataCells(row) == Tail(row)

\* cell texts of the rows of whole runs
RunTexts == { <<"A", "7">>, <<"B", "z", "p">>, <<"A", "#">> }

\* sequences over S of length exactly n / at most n
RECURSIVE SeqsOfLen(_, _)
SeqsOfLen(S, n) ==
  IF n = 0 THEN { <<>> }
  ELSE { Append(s, x) : s \in SeqsOfLen(S, n - 1), x \in S }
SeqsUpTo(S, n) == UNION { SeqsOfLen(S, m) : m \in 0..n }

\* a source row: the index cell, then one cell short of, exactly, or one cell
\* more than the table dimension
RowChoices ==
  { <<IndexCell>> \o cells :
      cells \in UNION { SeqsOfLen(RunTexts, w) : w \in (TableDim - 1)..(TableDim + 1) } }

(* ------------------------------- the run ------------------------------- *)
DeclLine == << "pub const OPCODES: [[I; 16]; 16] = [" >>
EndLine == << "]" >>

\* after rows = soup.find('table').find_all('tr'): nothing printed yet; the
\* table has the header row and one row short of, exactly, or one row more
\* than the table dimension
Init ==
  /\ pc = "start"
  /\ nrows \in (TableDim)..(TableDim + 2)
  /\ rows = << HeaderRow >>
  /\ rowNum = 0
  /\ k = 0
  /\ rowOutput = <<>>
  /\ stdout = <<>>
  /\ exc = "none"

\* print("pub const OPCODES: [[I; 16]; 16] = [") and entry into the row loop
PrintDecl ==
  /\ pc = "start"
  /\ stdout' = Append(stdout, DeclLine)
  /\ rowNum' = 1
  /\ pc' = "row"
  /\ UNCHANGED <<nrows, rows, k, rowOutput, exc>>

\* rowOutput = ["["]; row = rows[rowNum]  (IndexError past the last row)
FetchRow ==
  /\ pc = "row"
  /\ rowNum <= TableDim
  /\ IF rowNum < nrows
     THEN /\ \E r \in RowChoices : rows' = Append(rows, r)
          /\ rowOutput' = << "[" >>
          /\ k' = 0
          /\ pc' = "cell"
          /\ exc' = exc
     ELSE /\ exc' = "IndexError"
          /\ pc' = "failed"
          /\ rowOutput' = << "[" >>
          /\ UNCHANGED <<rows, k>>
  /\ UNCHANGED <<nrows, rowNum, stdout>>

\* one pass of "for cell in row.find_all('td')[1:]"
ParseCellStep ==
  /\ pc = "cell"
  /\ k < Len(DataCells(rows[rowNum + 1]))
  /\ LET res == ParseCell(DataCells(rows[rowNum + 1])[k + 1])
     IN IF res.kind = "append"
        THEN /\ rowOutput' = Append(rowOutput, Fmt(res.opcode, res.cycles, res.addr_mode))
             /\ k' = k + 1
             /\ UNCHANGED <<pc, exc>>
        ELSE /\ exc' = res.kind
             /\ pc' = "failed"
             /\ UNCHANGED <<rowOutput, k>>
  /\ UNCHANGED <<nrows, rows, rowNum, stdout>>

\* rowOutput.append("]"); print(''.join(rowOutput) + ',')
CloseRow ==
  /\ pc = "cell"
  /\ k = Len(DataCells(rows[rowNum + 1]))
  /\ stdout' = Append(stdout, Append(rowOutput, "]") \o << "," >>)
  /\ rowOutput' = Append(rowOutput, "]")
  /\ rowNum' = rowNum + 1
  /\ pc' = "row"
  /\ UNCHANGED <<nrows, rows, k, exc>>

\* print("]") once the row loop is exhausted
CloseDecl ==
  /\ pc = "row"
  /\ rowNum > TableDim
  /\ stdout' = Append(stdout, EndLine)
  /\ pc' = "done"
  /\ UNCHANGED <<nrows, rows, rowNum, k, rowOutput, exc>>

Next == PrintDecl \/ FetchRow \/ ParseCellStep \/ CloseRow \/ CloseDecl

Spec == Init /\ [][Next]_vars

(* ------------------------- one cell at a time -------------------------- *)
\* the texts a cell may hold: an uppercase run, a lowercase token, an optional
\* '#', a digit run and an optional trailing character; and every text of at
\* most MaxLen characters over a small alphabet
UpperRuns == SeqsUpTo(UpperChars, MaxMnemonic)
Mnemonics == UpperRuns \ { <<>> }
Abbrevs ==
  { <<"a", "b", "s">>, <<"a", "b", "x">>, <<"a", "b", "y">>, <<"i", "m", "m">>,
    <<"i", "n", "d">>, <<"i", "z", "x">>, <<"i", "z", "y">>, <<"z", "p">>,
    <<"z", "p", "x">>, <<"z", "p", "y">>, <<"r", "e", "l">> }
UnknownTokens ==
  { <<"x">>, <<"z", "q">>, <<"a", "b">>, <<"a", "b", "s", "x">>, <<"i", "m", "p">> }
Tokens == Abbrevs \cup UnknownTokens \cup { <<>> }
DigitSeqs == SeqsUpTo({"0", "1", "7"}, MaxDigits)
StructuredTexts ==
  { M \o X \o P \o D \o J :
      M \in UpperRuns, X \in Tokens, P \in { <<>>, <<"#">> },
      D \in DigitSeqs, J \in { <<>>, <<"x">>, <<"#">> } }
FreeTexts == SeqsUpTo({"A", "z", "p", "7", "#"}, MaxLen)
CellTexts == StructuredTexts \cup FreeTexts

\* the run at its first data cell: the declaration is printed and the first
\* row, holding one data cell, is fetched
InitCell ==
  /\ pc = "cell"
  /\ nrows = TableDim + 1
  /\ \E data \in CellTexts : rows = << HeaderRow, << IndexCell, data >> >>
  /\ rowNum = 1
  /\ k = 0
  /\ rowOutput = << "[" >>
  /\ stdout = << DeclLine >>
  /\ exc = "none"

NextCell == ParseCellStep \/ CloseRow

SpecCell == InitCell /\ [][NextCell]_vars

(* ------------------------------ properties ---------------------------- *)
\* the cell handled by the latest pass of the cell loop, and what became of it
JustAppended == pc = "cell" /\ k >= 1
LastText == rows[rowNum + 1][k + 1]
LastPiece == rowOutput[k + 1]
JustRaised == pc = "failed" /\ exc = "ValueError"
RaisedText == rows[rowNum + 1][k + 2]

\* the text t was parsed and the piece p was appended for it
Yields(t, p) ==
  /\ JustRaised => RaisedText # t
  /\ (JustAppended /\ LastText = t) => LastPiece = p
\* the text t was parsed and no piece was appended for it
Rejected(t) == JustAppended => LastText # t

\* the value of a whole digit sequence
RECURSIVE DecValue(_)
DecValue(D) ==
  IF D = <<>> THEN 0
  ELSE 10 * DecValue(SubSeq(D, 1, Len(D) - 1)) + DigitValue(D[Len(D)])

\* the eleven abbreviations with the tag each stands for
ModeTable ==
  { << <<"a", "b", "s">>, "AM::ABS" >>, << <<"a", "b", "x">>, "AM::ABX" >>,
    << <<"a", "b", "y">>, "AM::ABY" >>, << <<"i", "m", "m">>, "AM::IMM" >>,
    << <<"i", "n", "d">>, "AM::IND" >>, << <<"i", "z", "x">>, "AM::INX" >>,
    << <<"i", "z", "y">>, "AM::INY" >>, << <<"z", "p">>, "AM::ZPG" >>,
    << <<"z", "p", "x">>, "AM::ZPX" >>, << <<"z", "p", "y">>, "AM::ZPY" >>,
    << <<"r", "e", "l">>, "AM::REL" >> }
NonEmptyDigitSeqs == DigitSeqs \ { <<>> }

\* C1: a cell M+A+D, A one of the eleven abbreviations standing for mode T and
\* D a non-empty digit sequence of any length, yields the descriptor
\* (M, int(D), T) with int(D) the value of the whole sequence.
C1_ModeThenWholeDigitSequence ==
  \A M \in Mnemonics, e \in ModeTable, D \in NonEmptyDigitSeqs :
    Yields(M \o e[1] \o D, Fmt(Str(M), DecValue(D), e[2]))

\* C2: a cell M+D, D a non-empty digit sequence of any length, yields the
\* descriptor (M, int(D), Implied): all digits form the cycle count.
C2_BareWholeDigitSequence ==
  \A M \in Mnemonics, D \in NonEmptyDigitSeqs :
    Yields(M \o D, Fmt(Str(M), DecValue(D), "AM::IMP"))

\* C3: cycles default to 0: a cell M yields (M, 0, Implied) and a cell M+A,
\* A one of the eleven abbreviations standing for mode T, yields (M, 0, T).
C3_CyclesDefaultZero ==
  \A M \in Mnemonics :
    /\ Yields(M, Fmt(Str(M), 0, "AM::IMP"))
    /\ \A e \in ModeTable : Yields(M \o e[1], Fmt(Str(M), 0, e[2]))

C3_Witness ==
  /\ JustAppended
  /\ LastText = <<"A", "B", "i", "n", "d">>
  /\ LastPiece = "I::new(Op::AB,0,AM::IND),"

\* C4: a cell M+X+D with X a non-empty lowercase run that is none of the
\* eleven abbreviations and D a possibly empty digit sequence is a failure:
\* no descriptor is emitted for it.
C4_UnknownModeRejected ==
  \A M \in Mnemonics, X \in UnknownTokens, D \in DigitSeqs :
    Rejected(M \o X \o D)

\* C5: every emitted row line has exactly TableDim descriptors, a run does
\* not complete when a consumed row has another number of data cells or the
\* source another number of data rows, and a run that stops for want of a
\* row has written nothing.
RowLineAt(n) == n >= 2 /\ stdout[n] # EndLine
ShapeViolated ==
  \/ nrows - 1 # TableDim
  \/ \E r \in 2..Len(rows) : Len(rows[r]) - 1 # TableDim
C5_ShapeEnforced ==
  /\ \A n \in 1..Len(stdout) : RowLineAt(n) => Len(stdout[n]) = TableDim + 3
  /\ pc = "done" => ~ShapeViolated
  /\ (pc = "failed" /\ exc = "IndexError") => stdout = <<>>

\* C6: a cell whose text is empty or does not begin with an uppercase letter
\* is a failure: no descriptor (with an empty mnemonic) is emitted for it.
C6_MnemonicNeverEmpty ==
  JustAppended => (LastText # <<>> /\ isupper(LastText[1]))

\* C7: a cell in which the characters left after the mnemonic, or after the
\* mnemonic and a recognized token, are not all decimal digits is a failure:
\* every character of the suffix counts and no descriptor is emitted.
BadSuffixes ==
  { S \in SeqsUpTo({"1", "7", "x", "#"}, 3) :
      /\ S # <<>>
      /\ S[1] \in {"1", "7", "#"}
      /\ \E n \in 1..Len(S) : ~isdigit(S[n]) }
C7_NonDigitSuffixRejected ==
  \A M \in Mnemonics, X \in Abbrevs \cup { <<>> }, S \in BadSuffixes :
    Rejected(M \o X \o S)

\* C8: in a run that fails nothing has been written to standard output.
C8_FailureBlocksOutput == pc = "failed" => stdout = <<>>

\* C9: the printed table mirrors the source: the line of row r holds, in
\* order, exactly the pieces parsed from data cells 1.. of source row r
\* (row 0 and cell 0 contribute nothing), each a function of its own cell
\* text alone, and a completed run prints the declaration, the TableDim row
\* lines and the closing bracket.
PieceOf(t) == LET res == ParseCell(t) IN Fmt(res.opcode, res.cycles, res.addr_mode)
ExpectedLine(row) ==
  << "[" >> \o [c \in 1..(Len(row) - 1) |-> PieceOf(row[c + 1])] \o << "]", "," >>
C9_OutputMirrorsSource ==
  /\ Len(stdout) >= 1 => stdout[1] = DeclLine
  /\ \A n \in 2..Len(stdout) :
       IF n <= TableDim + 1 THEN stdout[n] = ExpectedLine(rows[n])
       ELSE n = TableDim + 2 /\ stdout[n] = EndLine
  /\ pc = "done" => Len(stdout) = TableDim + 2

C9_Witness ==
  /\ pc = "done"
  /\ Len(rows[2]) = TableDim + 1
  /\ rows[2][2] = <<"A", "7">>
  /\ rows[2][3] = <<"B", "z", "p">>
  /\ rows[3][2] = <<"B", "z", "p">>

\* C10 as stated: a cell M+X, X a non-empty lowercase run that is none of
\* the eleven abbreviations, with or without one trailing digit, is emitted
\* with the tag of the empty token, AM::IMP.
OptDigit == { D \in DigitSeqs : Len(D) <= 1 }
====
